---- MODULE Spec2Model ----
(***************************************************************************)
(* State-machine model of py_git_plugin: the two command line programs     *)
(* git_extra.py and git_plugin.py.  One invocation of a program is one     *)
(* process: it imports the module (git_extra.py reads ~/.gitconfig into    *)
(* the module-level ConfigParser), runs the click group callback `cli`     *)
(* and then the subcommand.  Strings whose characters matter (alias names, *)
(* command strings) are sequences of one-character strings.                *)
(*                                                                         *)
(* Scope: the configuration file is its [alias] section (no [DEFAULT]      *)
(* section, no line the parser rejects other than an empty option name);   *)
(* the git binary can always be started, so __run ends with an exit        *)
(* status; the `except CalledProcessError` clauses of _cherry_pick_commits *)
(* and _get_commit_list are unreachable because __run returns the error;   *)
(* a write of the configuration file is one step.                          *)
(***************************************************************************)
EXTENDS Integers, Sequences, FiniteSets, TLC

VARIABLES
    file,     \* ~/.gitconfig as far as the program sees it: the [alias] section
    pc,       \* pc[p]: position of invocation p
    inv,      \* inv[p]: program and command line of invocation p
    config,   \* config[p]: the module-level ConfigParser of invocation p
    ctx,      \* ctx[p]: ctx.obj["parent_dir"] set by the group callback
    out,      \* out[p]: messages echoed so far
    cmds,     \* cmds[p]: external processes run so far, with their results
    idx,      \* idx[p]: position of the cherry-pick loop in the commit list
    exc,      \* exc[p]: the uncaught exception that ended the invocation
    wrote,    \* wrote[p]: the invocation has rewritten the configuration file
    prev      \* subcommand and NAME of the previous invocation if it rewrote the file

vars == <<file, pc, inv, config, ctx, out, cmds, idx, exc, wrote, prev>>

(***************************************************************************)
(* Bounds                                                                  *)
(***************************************************************************)
MaxAliases == 2      \* alias-add is explored while the store has fewer entries
MaxCommits == 3      \* longest --cherry-pick list

Procs == {"p1", "p2"}

(***************************************************************************)
(* Characters and strings                                                  *)
(***************************************************************************)
LowerSeq == <<"a","b","c","d","e","f","g","h","i","j","k","l","m",
              "n","o","p","q","r","s","t","u","v","w","x","y","z">>
UpperSeq == <<"A","B","C","D","E","F","G","H","I","J","K","L","M",
              "N","O","P","Q","R","S","T","U","V","W","X","Y","Z">>

Range(s) == {s[i] : i \in DOMAIN s}

IsLetter(ch) == ch \in Range(LowerSeq) \cup Range(UpperSeq)

IsSpace(ch) == ch \in {" ", "\t", "\n"}

ToLower(ch) ==
    IF ch \in Range(UpperSeq)
    THEN LowerSeq[CHOOSE i \in DOMAIN UpperSeq : UpperSeq[i] = ch]
    ELSE ch

\* variant: the name is used as given
_sanitize_alias_AsGiven(name) == name

\* re.compile('[^a-zA-Z]').sub('', name)
_sanitize_alias(name) == SelectSeq(name, IsLetter)

\* ConfigParser.optionxform: option names are lower-cased on every access
optionxform(key) == SelectSeq([i \in DOMAIN key |-> ToLower(key[i])], LAMBDA ch : TRUE)

\* str.strip()
RECURSIVE lstrip(_)
lstrip(s) == IF s # <<>> /\ IsSpace(Head(s)) THEN lstrip(Tail(s)) ELSE s

RECURSIVE rstrip(_)
rstrip(s) ==
    IF s # <<>> /\ IsSpace(s[Len(s)]) THEN rstrip(SubSeq(s, 1, Len(s) - 1)) ELSE s

strip(s) == rstrip(lstrip(s))

\* str.split(): the maximal runs of non-whitespace characters, in order
RECURSIVE SplitFrom(_, _, _)
SplitFrom(s, cur, acc) ==
    IF s = <<>>
    THEN IF cur = <<>> THEN acc ELSE Append(acc, cur)
    ELSE IF IsSpace(Head(s))
         THEN SplitFrom(Tail(s), <<>>, IF cur = <<>> THEN acc ELSE Append(acc, cur))
         ELSE SplitFrom(Tail(s), Append(cur, Head(s)), acc)

split(s) == SplitFrom(s, <<>>, <<>>)

\* value.replace('%%', ''): leftmost non-overlapping pairs
RECURSIVE DropEscapedPercent(_)
DropEscapedPercent(v) ==
    IF Len(v) < 2 THEN v
    ELSE IF v[1] = "%" /\ v[2] = "%"
         THEN DropEscapedPercent(SubSeq(v, 3, Len(v)))
         ELSE <<v[1]>> \o DropEscapedPercent(Tail(v))

\* BasicInterpolation.before_set accepts the value (otherwise ValueError)
before_set(value) == "%" \notin Range(DropEscapedPercent(value))

\* BasicInterpolation.before_get: '%%' reads as '%'; a lone '%' raises
\* InterpolationSyntaxError
RECURSIVE before_get(_)
before_get(v) ==
    IF v = <<>> THEN [ok |-> TRUE, val |-> <<>>]
    ELSE IF v[1] # "%"
         THEN LET r == before_get(Tail(v))
              IN  [ok |-> r.ok, val |-> <<v[1]>> \o r.val]
         ELSE IF Len(v) >= 2 /\ v[2] = "%"
              THEN LET r == before_get(SubSeq(v, 3, Len(v)))
                   IN  [ok |-> r.ok, val |-> <<"%">> \o r.val]
              ELSE [ok |-> FALSE, val |-> <<>>]

(***************************************************************************)
(* Inputs                                                                  *)
(***************************************************************************)
NameB       == <<"b">>
NameUpperB  == <<"B">>
NameMyAlias == <<"m","y","-","a","l","i","a","s","!">>
NameDash    == <<"-">>
KeyMyAlias  == <<"m","y","a","l","i","a","s">>

Names == {NameB, NameUpperB, NameMyAlias, KeyMyAlias, NameDash}

CmdBranch == <<"b","r","a","n","c","h"," ","-","-","s","h","o","w","-",
               "c","u","r","r","e","n","t">>
CmdPadded == <<" ","s","t"," "," ","-","s"," ">>
CmdFormat == <<"l","o","g"," ","%","h">>
CmdEscape == <<"l","o","g"," ","%","%","h">>
CmdEmpty  == <<>>

Commands == {CmdBranch, CmdPadded, CmdFormat, CmdEscape, CmdEmpty}

ArgLists == {<<>>, <<<<"-","v">>>>}

None == <<"<None>">>   \* Python's None where a path is expected
NoCwd == <<"<inherit>">> \* subprocess.run without cwd

(***************************************************************************)
(* The file system the --path option is resolved against.  Paths are       *)
(* sequences of components.                                                *)
(***************************************************************************)
PathRepo    == <<"repo">>            \* a repository root
PathNested  == <<"repo", "src">>     \* a subdirectory of the repository
PathLinked  == <<"wt">>              \* a linked worktree: '.git' is a file
PathFile    == <<"notes.txt">>       \* a regular file
PathMissing == <<"missing">>         \* does not exist

Paths == {PathRepo, PathNested, PathLinked, PathFile, PathMissing}

isdir(path) ==
    path \in {PathRepo, PathNested, PathLinked, <<"repo", ".git">>}

listdir(path) ==
    CASE path = PathRepo   -> <<"src", ".git", "README">>
      [] path = PathNested -> <<"main.py">>
      [] path = PathLinked -> <<".git", "lib">>
      [] OTHER             -> <<>>

join(path, el) == Append(path, el)

dirname(path) == SubSeq(path, 1, Len(path) - 1)

\* the first immediate child named '.git' that is a directory, else None
RECURSIVE ScanChildren(_, _)
ScanChildren(path, els) ==
    IF els = <<>> THEN None
    ELSE IF isdir(join(path, Head(els))) /\ Head(els) = ".git"
         THEN join(path, Head(els))
         ELSE ScanChildren(path, Tail(els))

\* variant: the entry named '.git' is taken without testing that it is a directory
_find_git_folder_AnyEntry(path) ==
    IF ~isdir(path) THEN None
    ELSE IF ".git" \in Range(listdir(path)) THEN join(path, ".git") ELSE None

_find_git_folder(path) ==
    IF ~isdir(path) THEN None ELSE ScanChildren(path, listdir(path))

\* variant: the metadata folder itself is taken as the repository root
cli_MetadataAsRoot(path) ==
    LET git_path == _find_git_folder(path)
    IN  IF git_path = None
        THEN [exited |-> TRUE, echo |-> <<<<"is not a git project directory", path>>>>,
              parent_dir |-> None]
        ELSE [exited |-> FALSE, echo |-> <<>>, parent_dir |-> git_path]

\* variant: a path that is no directory gets a message of its own
cli_NotADirectory(path) ==
    LET git_path == _find_git_folder(path)
    IN  IF ~isdir(path)
        THEN [exited |-> TRUE, echo |-> <<<<"is not a directory", path>>>>,
              parent_dir |-> None]
        ELSE IF git_path = None
        THEN [exited |-> TRUE, echo |-> <<<<"is not a git project directory", path>>>>,
              parent_dir |-> None]
        ELSE [exited |-> FALSE, echo |-> <<>>, parent_dir |-> dirname(git_path)]

\* the click group callback: what it echoes, whether it ends the invocation
\* (ctx.exit()), and ctx.obj["parent_dir"]
cli(path) ==
    LET git_path == _find_git_folder(path)
    IN  IF git_path = None
        THEN [exited |-> TRUE, echo |-> <<<<"is not a git project directory", path>>>>,
              parent_dir |-> None]
        ELSE [exited |-> FALSE, echo |-> <<>>, parent_dir |-> dirname(git_path)]

(***************************************************************************)
(* The configuration file and the ConfigParser                             *)
(***************************************************************************)
EmptyMap == [k \in {} |-> <<>>]

Put(m, k, v) == [x \in DOMAIN m \cup {k} |-> IF x = k THEN v ELSE m[x]]

\* variant: the whole section is emptied
Del_Section(m, k) == EmptyMap

Del(m, k) == [x \in DOMAIN m \ {k} |-> m[x]]

NoConfig == [has |-> FALSE, alias |-> EmptyMap]

\* config.read(CONFIG_FILE) when the file exists: option names are stripped
\* and lower-cased, values are stripped; an empty option name is a
\* ParsingError, a repeated one a DuplicateOptionError
ReadError(f) ==
    IF ~f.exists THEN "none"
    ELSE IF \E k \in DOMAIN f.alias : strip(k) = <<>> THEN "ParsingError"
    ELSE IF \E k1, k2 \in DOMAIN f.alias :
                k1 # k2 /\ optionxform(strip(k1)) = optionxform(strip(k2))
         THEN "DuplicateOptionError"
         ELSE "none"

ReadConfig(f) ==
    IF ~f.exists THEN NoConfig
    ELSE [has   |-> f.has,
          alias |-> [k \in {optionxform(strip(x)) : x \in DOMAIN f.alias} |->
                        strip(f.alias[CHOOSE x \in DOMAIN f.alias :
                                          optionxform(strip(x)) = k])]]

\* variant: the entries of the file are kept and those of the parser added
WriteConfig_Merging(c) ==
    [exists |-> TRUE, has |-> c.has,
     alias  |-> [k \in DOMAIN file.alias \cup DOMAIN c.alias |->
                    IF k \in DOMAIN c.alias THEN c.alias[k] ELSE file.alias[k]]]

\* with open(CONFIG_FILE, "w") as f: config.write(f)
WriteConfig(c) == [exists |-> TRUE, has |-> c.has, alias |-> c.alias]

\* name in config["alias"]  (has_option applies optionxform)
HasOption(c, name) == optionxform(name) \in DOMAIN c.alias

\* config["alias"][name]  (the value after interpolation)
GetOption(c, name) == before_get(c.alias[optionxform(name)])

(***************************************************************************)
(* Invocations                                                             *)
(***************************************************************************)
Inv0 == [prog |-> "git_extra", sub |-> "none", path |-> PathRepo, name |-> <<>>,
         command |-> <<>>, args |-> <<>>, commits |-> <<>>, branch |-> "",
         auto_resolve |-> FALSE, interactive |-> FALSE, message |-> "Default commit"]

AliasInvocations ==
    {[Inv0 EXCEPT !.sub = "alias-add", !.path = d, !.name = n, !.command = c] :
        d \in Paths, n \in Names, c \in Commands}
    \cup {[Inv0 EXCEPT !.sub = "alias-remove", !.path = d, !.name = n] :
        d \in Paths, n \in Names}
    \cup {[Inv0 EXCEPT !.sub = s, !.path = d] :
        d \in Paths, s \in {"alias-list", "alias-clear"}}
    \cup {[Inv0 EXCEPT !.sub = "run-alias", !.path = d, !.name = n, !.args = a] :
        d \in Paths, n \in Names, a \in ArgLists}

NoFile == [exists |-> FALSE, has |-> FALSE, alias |-> EmptyMap]

\* no previous invocation, or one that left the configuration file alone
NoPrev == [sub |-> "none", name |-> <<>>]

InitFiles ==
    { NoFile,
      [exists |-> TRUE, has |-> FALSE, alias |-> EmptyMap],
      [exists |-> TRUE, has |-> TRUE, alias |-> (NameB :> CmdBranch)],
      [exists |-> TRUE, has |-> TRUE, alias |-> (NameB :> CmdFormat)] }

Init ==
    /\ file \in InitFiles
    /\ pc = [p \in Procs |-> "idle"]
    /\ inv = [p \in Procs |-> Inv0]
    /\ config = [p \in Procs |-> NoConfig]
    /\ ctx = [p \in Procs |-> None]
    /\ out = [p \in Procs |-> <<>>]
    /\ cmds = [p \in Procs |-> <<>>]
    /\ idx = [p \in Procs |-> 0]
    /\ exc = [p \in Procs |-> "none"]
    /\ wrote = [p \in Procs |-> FALSE]
    /\ prev = NoPrev

(***************************************************************************)
(* Process start: the command line is fixed and the module is imported.    *)
(* git_extra.py reads the configuration file at import; a file the parser  *)
(* rejects ends the invocation with the parser's exception.                *)
(***************************************************************************)
Start(p, i) ==
    /\ pc[p] = "idle"
    /\ i.sub = "alias-add" => Cardinality(DOMAIN file.alias) < MaxAliases
    /\ inv' = [inv EXCEPT ![p] = i]
    /\ IF i.prog = "git_extra" /\ ReadError(file) # "none"
       THEN /\ exc' = [exc EXCEPT ![p] = ReadError(file)]
            /\ pc' = [pc EXCEPT ![p] = "done"]
            /\ UNCHANGED config
       ELSE /\ config' = [config EXCEPT ![p] =
                            IF i.prog = "git_extra" THEN ReadConfig(file) ELSE NoConfig]
            /\ pc' = [pc EXCEPT ![p] = "loaded"]
            /\ UNCHANGED exc
    /\ UNCHANGED <<file, ctx, out, cmds, idx, wrote, prev>>

\* the group callback finds no repository: it echoes and ends the invocation
CliExit(p) ==
    /\ pc[p] = "loaded"
    /\ cli(inv[p].path).exited
    /\ out' = [out EXCEPT ![p] = cli(inv[p].path).echo]
    /\ pc' = [pc EXCEPT ![p] = "done"]
    /\ UNCHANGED <<file, inv, config, ctx, cmds, idx, exc, wrote, prev>>

\* the group callback passes and click invokes subcommand `sub`
Invoked(p, sub) ==
    /\ pc[p] = "loaded"
    /\ inv[p].sub = sub
    /\ ~cli(inv[p].path).exited
    /\ ctx' = [ctx EXCEPT ![p] = cli(inv[p].path).parent_dir]

(***************************************************************************)
(* Alias subcommands (git_extra.py)                                        *)
(***************************************************************************)
alias_add(p) ==
    /\ Invoked(p, "alias-add")
    /\ LET name == _sanitize_alias(inv[p].name)
           c1   == IF config[p].has THEN config[p]
                   ELSE [has |-> TRUE, alias |-> EmptyMap]
       IN  IF HasOption(c1, name)
           THEN /\ out' = [out EXCEPT ![p] = <<<<"already exists", name>>>>]
                /\ config' = [config EXCEPT ![p] = c1]
                /\ UNCHANGED <<file, exc, wrote>>
           ELSE IF ~before_set(inv[p].command)
           THEN /\ exc' = [exc EXCEPT ![p] = "ValueError"]
                /\ config' = [config EXCEPT ![p] = c1]
                /\ UNCHANGED <<file, out, wrote>>
           ELSE LET c2 == [c1 EXCEPT !.alias =
                             Put(c1.alias, optionxform(_sanitize_alias(name)),
                                 inv[p].command)]
                IN  /\ config' = [config EXCEPT ![p] = c2]
                    /\ file' = WriteConfig(c2)
                    /\ wrote' = [wrote EXCEPT ![p] = TRUE]
                    /\ out' = [out EXCEPT ![p] = <<<<"added", name, inv[p].command>>>>]
                    /\ UNCHANGED exc
    /\ pc' = [pc EXCEPT ![p] = "done"]
    /\ UNCHANGED <<inv, cmds, idx, prev>>

alias_remove(p) ==
    /\ Invoked(p, "alias-remove")
    /\ LET name == inv[p].name
       IN  IF ~config[p].has
           THEN /\ out' = [out EXCEPT ![p] = <<<<"No aliases found", name>>>>]
                /\ UNCHANGED <<file, config, wrote>>
           ELSE IF HasOption(config[p], name)
           THEN LET c2 == [config[p] EXCEPT !.alias = Del(@, optionxform(name))]
                IN  /\ config' = [config EXCEPT ![p] = c2]
                    /\ file' = WriteConfig(c2)
                    /\ wrote' = [wrote EXCEPT ![p] = TRUE]
                    /\ out' = [out EXCEPT ![p] = <<<<"removed", name>>>>]
           ELSE /\ out' = [out EXCEPT ![p] = <<<<"does not exist", name>>>>]
                /\ UNCHANGED <<file, config, wrote>>
    /\ pc' = [pc EXCEPT ![p] = "done"]
    /\ UNCHANGED <<inv, cmds, idx, exc, prev>>

\* the rows of the table after the header row
TableRows(c) ==
    IF DOMAIN c.alias = {}
    THEN {<<"No aliases found", "">>}
    ELSE {<<k, before_get(c.alias[k]).val>> : k \in DOMAIN c.alias}

alias_list(p) ==
    /\ Invoked(p, "alias-list")
    /\ IF config[p].has
       THEN IF \E k \in DOMAIN config[p].alias : ~before_get(config[p].alias[k]).ok
            THEN /\ exc' = [exc EXCEPT ![p] = "InterpolationSyntaxError"]
                 /\ UNCHANGED out
            ELSE /\ out' = [out EXCEPT ![p] = <<<<"table", TableRows(config[p])>>>>]
                 /\ UNCHANGED exc
       ELSE /\ out' = [out EXCEPT ![p] = <<<<"No aliases defined.">>>>]
            /\ UNCHANGED exc
    /\ pc' = [pc EXCEPT ![p] = "done"]
    /\ UNCHANGED <<file, inv, config, cmds, idx, wrote, prev>>

\* variant: the file is written before the section is emptied
alias_clear_SaveFirst(p) ==
    /\ Invoked(p, "alias-clear")
    /\ config' = [config EXCEPT ![p] = [has |-> TRUE, alias |-> EmptyMap]]
    /\ file' = WriteConfig([has |-> TRUE, alias |-> config[p].alias])
    /\ wrote' = [wrote EXCEPT ![p] = TRUE]
    /\ out' = [out EXCEPT ![p] = <<<<"All aliases cleared.">>>>]
    /\ pc' = [pc EXCEPT ![p] = "done"]
    /\ UNCHANGED <<inv, cmds, idx, exc, prev>>

alias_clear(p) ==
    /\ Invoked(p, "alias-clear")
    /\ LET c2 == [has |-> TRUE, alias |-> EmptyMap]
       IN  /\ config' = [config EXCEPT ![p] = c2]
           /\ file' = WriteConfig(c2)
    /\ wrote' = [wrote EXCEPT ![p] = TRUE]
    /\ out' = [out EXCEPT ![p] = <<<<"All aliases cleared.">>>>]
    /\ pc' = [pc EXCEPT ![p] = "done"]
    /\ UNCHANGED <<inv, cmds, idx, exc, prev>>

\* results of subprocess.run(full_command): the child's exit status, or -1
\* when the child cannot be started (OSError)
SpawnResults == {0, 1, -1}

\* variant: the alias runs in the repository root
subprocess_run_InRepo(p, full_command, rc) ==
    [argv |-> full_command, cwd |-> cli(inv[p].path).parent_dir, rc |-> rc]

\* subprocess.run(full_command): no cwd, the result is not inspected
subprocess_run(p, full_command, rc) ==
    [argv |-> full_command, cwd |-> NoCwd, rc |-> rc]

run_alias(p) ==
    /\ Invoked(p, "run-alias")
    /\ IF ~config[p].has
       THEN /\ exc' = [exc EXCEPT ![p] = "KeyError"]
            /\ UNCHANGED <<out, cmds>>
       ELSE IF ~HasOption(config[p], inv[p].name)
       THEN /\ out' = [out EXCEPT ![p] = <<<<"not found", inv[p].name>>>>]
            /\ UNCHANGED <<exc, cmds>>
       ELSE LET command == GetOption(config[p], inv[p].name)
                full_command == split(command.val) \o inv[p].args
            IN  IF ~command.ok
                THEN /\ exc' = [exc EXCEPT ![p] = "InterpolationSyntaxError"]
                     /\ UNCHANGED <<out, cmds>>
                ELSE IF full_command = <<>>
                THEN /\ exc' = [exc EXCEPT ![p] = "IndexError"]
                     /\ UNCHANGED <<out, cmds>>
                ELSE \E rc \in SpawnResults :
                        /\ cmds' = [cmds EXCEPT ![p] =
                                      <<subprocess_run(p, full_command, rc)>>]
                        /\ exc' = [exc EXCEPT ![p] = IF rc = -1 THEN "OSError" ELSE "none"]
                        /\ UNCHANGED out
    /\ pc' = [pc EXCEPT ![p] = "done"]
    /\ UNCHANGED <<file, inv, config, idx, wrote, prev>>

\* the process ends; the next invocation starts from a fresh process
Exit(p) ==
    /\ pc[p] = "done"
    /\ prev' = IF wrote[p] THEN [sub |-> inv[p].sub, name |-> inv[p].name] ELSE NoPrev
    /\ pc' = [pc EXCEPT ![p] = "idle"]
    /\ inv' = [inv EXCEPT ![p] = Inv0]
    /\ config' = [config EXCEPT ![p] = NoConfig]
    /\ ctx' = [ctx EXCEPT ![p] = None]
    /\ out' = [out EXCEPT ![p] = <<>>]
    /\ cmds' = [cmds EXCEPT ![p] = <<>>]
    /\ idx' = [idx EXCEPT ![p] = 0]
    /\ exc' = [exc EXCEPT ![p] = "none"]
    /\ wrote' = [wrote EXCEPT ![p] = FALSE]
    /\ UNCHANGED file

(***************************************************************************)
(* Subcommands that shell out to git (git_extra.py and git_plugin.py)      *)
(***************************************************************************)
Commits == {"c1", "c2", "c3"}

RECURSIVE SeqsUpTo(_, _)
SeqsUpTo(S, n) ==
    IF n = 0 THEN {<<>>}
    ELSE LET shorter == SeqsUpTo(S, n - 1)
         IN  shorter \cup {Append(q, x) : q \in shorter, x \in S}

CommitLists == SeqsUpTo(Commits, MaxCommits)

Branches == {"", "B"}

\* exit statuses of the git child processes run by __run
GitResults == {0, 1}

\* __run(command, cwd): the process it runs, with its exit status
__run(command, cwd, rc) == [argv |-> command, cwd |-> cwd, rc |-> rc]

\* what __run echoes: stdout on success, stderr on CalledProcessError
RunEcho(command, rc) ==
    IF rc = 0 THEN <<"executed successfully", command>>
    ELSE <<"Error running", command>>

\* stdout of `git log --oneline`, a line being its whitespace-separated tokens
LogOutputs == { <<>>,
                <<<<"c1", "first">>, <<"c2", "second", "commit">>>> }

\* result.stdout.strip().split("\n"): an empty output is one empty line
LogLines(stdout) == IF stdout = <<>> THEN <<<<>>>> ELSE stdout

\* fields of the comma-separated answer to the prompt
Field(n) == [isint |-> TRUE, val |-> n]
NotANumber == [isint |-> FALSE, val |-> 0]

PromptInputs == { <<Field(0)>>, <<Field(1), Field(0)>>, <<Field(-1)>>, <<Field(2)>>,
                  <<NotANumber>> }

\* commits[i] exists (Python indexing, negative indices count from the end)
InRange(commits, i) == -Len(commits) <= i /\ i < Len(commits)

PyIndex(commits, i) == IF i >= 0 THEN commits[i + 1] ELSE commits[Len(commits) + i + 1]

GitInvocations ==
    {[Inv0 EXCEPT !.prog = g, !.sub = "push", !.path = d, !.message = m] :
        g \in {"git_extra", "git_plugin"}, d \in Paths, m \in {"Default commit", "fix"}}
    \cup {[Inv0 EXCEPT !.prog = "git_plugin", !.sub = "pull", !.path = d] : d \in Paths}
    \cup {[Inv0 EXCEPT !.prog = g, !.sub = "cherry-pick", !.path = d, !.commits = cs,
                       !.branch = b, !.auto_resolve = a] :
        g \in {"git_extra", "git_plugin"}, d \in Paths, cs \in CommitLists,
        b \in Branches, a \in BOOLEAN}
    \cup {[Inv0 EXCEPT !.prog = g, !.sub = "cherry-pick", !.path = d, !.branch = b,
                       !.auto_resolve = a, !.interactive = TRUE] :
        g \in {"git_extra", "git_plugin"}, d \in Paths, b \in Branches, a \in BOOLEAN}

pull(p) ==
    /\ Invoked(p, "pull")
    /\ \E rc \in GitResults :
        LET command == <<"git", "pull">>
        IN  /\ cmds' = [cmds EXCEPT ![p] =
                          <<__run(command, cli(inv[p].path).parent_dir, rc)>>]
            /\ out' = [out EXCEPT ![p] = <<RunEcho(command, rc)>>]
    /\ pc' = [pc EXCEPT ![p] = "done"]
    /\ UNCHANGED <<file, inv, config, idx, exc, wrote, prev>>

\* the three commands of push, in program order
PushCommands(message) ==
    << <<"git", "add", ".">>, <<"git", "commit", "-m", message>>, <<"git", "push">> >>

push(p) ==
    /\ Invoked(p, "push")
    /\ pc' = [pc EXCEPT ![p] = "push"]
    /\ idx' = [idx EXCEPT ![p] = 1]
    /\ UNCHANGED <<file, inv, config, out, cmds, exc, wrote, prev>>

\* variant: a failing command ends the push
push_run_StopOnFailure(p) ==
    /\ pc[p] = "push"
    /\ \E rc \in GitResults :
        LET command == PushCommands(inv[p].message)[idx[p]]
        IN  /\ cmds' = [cmds EXCEPT ![p] = Append(@, __run(command, ctx[p], rc))]
            /\ out' = [out EXCEPT ![p] = Append(@, RunEcho(command, rc))]
            /\ IF idx[p] = Len(PushCommands(inv[p].message)) \/ rc # 0
               THEN pc' = [pc EXCEPT ![p] = "done"] /\ UNCHANGED idx
               ELSE idx' = [idx EXCEPT ![p] = @ + 1] /\ UNCHANGED pc
    /\ UNCHANGED <<file, inv, config, ctx, exc, wrote, prev>>

\* one __run of push; its result is not inspected
push_run(p) ==
    /\ pc[p] = "push"
    /\ \E rc \in GitResults :
        LET command == PushCommands(inv[p].message)[idx[p]]
        IN  /\ cmds' = [cmds EXCEPT ![p] = Append(@, __run(command, ctx[p], rc))]
            /\ out' = [out EXCEPT ![p] = Append(@, RunEcho(command, rc))]
    /\ IF idx[p] = Len(PushCommands(inv[p].message))
       THEN pc' = [pc EXCEPT ![p] = "done"] /\ UNCHANGED idx
       ELSE idx' = [idx EXCEPT ![p] = @ + 1] /\ UNCHANGED pc
    /\ UNCHANGED <<file, inv, config, ctx, exc, wrote, prev>>

\* variant: the branch name is not tested
Orchestrate_AnyBranch(p, cherry_pick, branch) ==
    IF cherry_pick # <<>>
    THEN pc' = [pc EXCEPT ![p] = "checkout"]
    ELSE pc' = [pc EXCEPT ![p] = "done"]

\* `if cherry_pick and branch:` _cherry_pick_commits(...) starts with the checkout
Orchestrate(p, cherry_pick, branch) ==
    IF cherry_pick # <<>> /\ branch # ""
    THEN pc' = [pc EXCEPT ![p] = "checkout"]
    ELSE pc' = [pc EXCEPT ![p] = "done"]

\* cherry-pick without --interactive
cherry_pick(p) ==
    /\ Invoked(p, "cherry-pick")
    /\ ~inv[p].interactive
    /\ Orchestrate(p, inv[p].commits, inv[p].branch)
    /\ UNCHANGED <<file, inv, config, out, cmds, idx, exc, wrote, prev>>

\* cherry-pick --interactive: list the log, prompt, map the indices to hashes
cherry_pick_interactive(p) ==
    /\ Invoked(p, "cherry-pick")
    /\ inv[p].interactive
    /\ \E rc \in GitResults, stdout \in LogOutputs, answer \in PromptInputs :
        LET command == <<"git", "log", "--oneline">>
            commits == IF rc = 0 THEN LogLines(stdout) ELSE <<>>
            listing == [i \in DOMAIN commits |-> <<"index", i - 1, commits[i]>>]
            bad(k)  == \/ ~InRange(commits, answer[k].val)
                       \/ PyIndex(commits, answer[k].val) = <<>>
            chosen  == [k \in DOMAIN answer |-> PyIndex(commits, answer[k].val)[1]]
        IN  /\ cmds' = [cmds EXCEPT ![p] =
                          <<__run(command, cli(inv[p].path).parent_dir, rc)>>]
            /\ out' = [out EXCEPT ![p] = <<RunEcho(command, rc)>> \o listing]
            /\ IF \E k \in DOMAIN answer : ~answer[k].isint
               THEN /\ exc' = [exc EXCEPT ![p] = "ValueError"]
                    /\ pc' = [pc EXCEPT ![p] = "done"]
                    /\ UNCHANGED inv
               ELSE IF \E k \in DOMAIN answer : bad(k)
               THEN /\ exc' = [exc EXCEPT ![p] = "IndexError"]
                    /\ pc' = [pc EXCEPT ![p] = "done"]
                    /\ UNCHANGED inv
               ELSE /\ inv' = [inv EXCEPT ![p].commits = chosen]
                    /\ Orchestrate(p, chosen, inv[p].branch)
                    /\ UNCHANGED exc
    /\ UNCHANGED <<file, config, idx, wrote, prev>>

\* the echo after the loop of _cherry_pick_commits, also after a break
SuccessEcho(p) == <<"Cherry-picked commits successfully", inv[p].commits, inv[p].branch>>

\* variant: a failed checkout ends the orchestration
checkout_Fatal(p) ==
    /\ pc[p] = "checkout"
    /\ \E rc \in GitResults :
        LET command == <<"git", "checkout", inv[p].branch>>
        IN  /\ cmds' = [cmds EXCEPT ![p] = Append(@, __run(command, ctx[p], rc))]
            /\ out' = [out EXCEPT ![p] = Append(@, RunEcho(command, rc))]
            /\ pc' = [pc EXCEPT ![p] = IF rc = 0 THEN "pick" ELSE "done"]
    /\ idx' = [idx EXCEPT ![p] = 1]
    /\ UNCHANGED <<file, inv, config, ctx, exc, wrote, prev>>

\* __run(["git", "checkout", target_branch]); its result is not inspected
checkout(p) ==
    /\ pc[p] = "checkout"
    /\ \E rc \in GitResults :
        LET command == <<"git", "checkout", inv[p].branch>>
        IN  /\ cmds' = [cmds EXCEPT ![p] = Append(@, __run(command, ctx[p], rc))]
            /\ out' = [out EXCEPT ![p] = Append(@, RunEcho(command, rc))]
    /\ pc' = [pc EXCEPT ![p] = "pick"]
    /\ idx' = [idx EXCEPT ![p] = 1]
    /\ UNCHANGED <<file, inv, config, ctx, exc, wrote, prev>>

\* the for loop moves on from commit idx[p]: the next commit, or the final echo
NextCommit(p, echoed) ==
    IF idx[p] < Len(inv[p].commits)
    THEN /\ idx' = [idx EXCEPT ![p] = @ + 1]
         /\ pc' = [pc EXCEPT ![p] = "pick"]
         /\ out' = [out EXCEPT ![p] = @ \o echoed]
    ELSE /\ pc' = [pc EXCEPT ![p] = "done"]
         /\ out' = [out EXCEPT ![p] = @ \o echoed \o <<SuccessEcho(p)>>]
         /\ UNCHANGED idx

\* variant: the auto_resolve test is inverted
OnConflict_Inverted(p, echoed) ==
    IF ~inv[p].auto_resolve
    THEN /\ pc' = [pc EXCEPT ![p] = "skip"]
         /\ out' = [out EXCEPT ![p] = @ \o echoed]
         /\ UNCHANGED idx
    ELSE /\ pc' = [pc EXCEPT ![p] = "abort"]
         /\ out' = [out EXCEPT ![p] =
                      @ \o echoed \o <<<<"Conflict detected", inv[p].commits[idx[p]]>>>>]
         /\ UNCHANGED idx

\* result.returncode != 0 for a commit: skip it, or abort and leave the loop
OnConflict(p, echoed) ==
    IF inv[p].auto_resolve
    THEN /\ pc' = [pc EXCEPT ![p] = "skip"]
         /\ out' = [out EXCEPT ![p] = @ \o echoed]
         /\ UNCHANGED idx
    ELSE /\ pc' = [pc EXCEPT ![p] = "abort"]
         /\ out' = [out EXCEPT ![p] =
                      @ \o echoed \o <<<<"Conflict detected", inv[p].commits[idx[p]]>>>>]
         /\ UNCHANGED idx

\* __run(["git", "cherry-pick", commit]) for the commit at idx[p]
pick(p) ==
    /\ pc[p] = "pick"
    /\ \E rc \in GitResults :
        LET command == <<"git", "cherry-pick", inv[p].commits[idx[p]]>>
        IN  /\ cmds' = [cmds EXCEPT ![p] = Append(@, __run(command, ctx[p], rc))]
            /\ IF rc # 0
               THEN OnConflict(p, <<RunEcho(command, rc)>>)
               ELSE NextCommit(p, <<RunEcho(command, rc)>>)
    /\ UNCHANGED <<file, inv, config, ctx, exc, wrote, prev>>

\* __run(["git", "cherry-pick", "--skip"]), then the loop continues
skip(p) ==
    /\ pc[p] = "skip"
    /\ \E rc \in GitResults :
        LET command == <<"git", "cherry-pick", "--skip">>
        IN  /\ cmds' = [cmds EXCEPT ![p] = Append(@, __run(command, ctx[p], rc))]
            /\ NextCommit(p, <<RunEcho(command, rc),
                               <<"Automatically skipped", inv[p].commits[idx[p]]>>>>)
    /\ UNCHANGED <<file, inv, config, ctx, exc, wrote, prev>>

\* variant: the abort returns from the function, nothing is echoed after it
abort_Return(p) ==
    /\ pc[p] = "abort"
    /\ \E rc \in GitResults :
        LET command == <<"git", "cherry-pick", "--abort">>
        IN  /\ cmds' = [cmds EXCEPT ![p] = Append(@, __run(command, ctx[p], rc))]
            /\ out' = [out EXCEPT ![p] = @ \o <<RunEcho(command, rc)>>]
    /\ pc' = [pc EXCEPT ![p] = "done"]
    /\ UNCHANGED <<file, inv, config, ctx, idx, exc, wrote, prev>>

\* variant: the break after the abort is missing, the loop goes on
abort_NoBreak(p) ==
    /\ pc[p] = "abort"
    /\ \E rc \in GitResults :
        LET command == <<"git", "cherry-pick", "--abort">>
        IN  /\ cmds' = [cmds EXCEPT ![p] = Append(@, __run(command, ctx[p], rc))]
            /\ NextCommit(p, <<RunEcho(command, rc)>>)
    /\ UNCHANGED <<file, inv, config, ctx, exc, wrote, prev>>

\* __run(["git", "cherry-pick", "--abort"]), break, and the final echo
abort(p) ==
    /\ pc[p] = "abort"
    /\ \E rc \in GitResults :
        LET command == <<"git", "cherry-pick", "--abort">>
        IN  /\ cmds' = [cmds EXCEPT ![p] = Append(@, __run(command, ctx[p], rc))]
            /\ out' = [out EXCEPT ![p] = @ \o <<RunEcho(command, rc), SuccessEcho(p)>>]
    /\ pc' = [pc EXCEPT ![p] = "done"]
    /\ UNCHANGED <<file, inv, config, ctx, idx, exc, wrote, prev>>

GitStep(p) ==
    \/ pull(p)
    \/ push(p)
    \/ push_run(p)
    \/ cherry_pick(p)
    \/ cherry_pick_interactive(p)
    \/ checkout(p)
    \/ pick(p)
    \/ skip(p)
    \/ abort(p)

AliasStep(p) ==
    \/ alias_add(p)
    \/ alias_remove(p)
    \/ alias_list(p)
    \/ alias_clear(p)
    \/ run_alias(p)

(***************************************************************************)
(* Specifications                                                          *)
(***************************************************************************)
\* the whole command line of both programs, one invocation at a time; the
\* git subcommands take their short inputs
CliInvocations ==
    AliasInvocations
    \cup {i \in GitInvocations : i.commits \in {<<>>, <<"c1">>} /\ i.message = Inv0.message}

Next ==
    \/ \E i \in CliInvocations : Start("p1", i)
    \/ CliExit("p1")
    \/ AliasStep("p1")
    \/ GitStep("p1")
    \/ Exit("p1")

Spec == Init /\ [][Next]_vars

\* the subcommands that shell out to git, over every commit list
InitGit == Init /\ file = NoFile

NextGit ==
    \/ \E i \in GitInvocations : Start("p1", i)
    \/ CliExit("p1")
    \/ GitStep("p1")
    \/ Exit("p1")

SpecGit == InitGit /\ [][NextGit]_vars

\* two invocations of git_extra.py at once, changing the alias store of a
\* repository
ConcInvocations ==
    {i \in AliasInvocations :
        /\ i.path = PathRepo
        /\ i.sub \in {"alias-add", "alias-remove", "alias-clear"}
        /\ i.sub # "alias-clear" => i.name \in {NameB, KeyMyAlias}
        /\ i.sub = "alias-add" => i.command \in {CmdBranch, CmdPadded}}

NextConc ==
    \E p \in Procs :
        \/ \E i \in ConcInvocations : Start(p, i)
        \/ alias_add(p)
        \/ alias_remove(p)
        \/ alias_clear(p)
        \/ Exit(p)

SpecConc == Init /\ [][NextConc]_vars

(***************************************************************************)
(* Properties                                                              *)
(***************************************************************************)
\* the git commands of the orchestration: everything but the log listing
Orchestration(p) ==
    SelectSeq(cmds[p], LAMBDA c : c.argv # <<"git", "log", "--oneline">>)

PickOf(commit) == <<"git", "cherry-pick", commit>>
SkipCmd == <<"git", "cherry-pick", "--skip">>
AbortCmd == <<"git", "cherry-pick", "--abort">>

\* the invocation runs _cherry_pick_commits and has come to its end
Orchestrated(p) ==
    /\ pc[p] = "done"
    /\ inv[p].sub = "cherry-pick"
    /\ ctx[p] # None
    /\ exc[p] = "none"
    /\ inv[p].commits # <<>>
    /\ inv[p].branch # ""

\* C1: with auto-resolve disabled the commands issued are one checkout of the
\* target branch, then the cherry-picks of the commits in list order up to and
\* including the first one that fails, then exactly one 'cherry-pick --abort';
\* nothing is issued after it, and 'cherry-pick --skip' is never issued.
C1_AbortAtFirstFailure ==
    \A p \in Procs :
        (inv[p].sub = "cherry-pick" /\ ~inv[p].auto_resolve) =>
            LET o  == Orchestration(p)
                cs == inv[p].commits
                failed(j) == \E m \in 2..(j - 1) : o[m].rc # 0
            IN  /\ o # <<>> => o[1].argv = <<"git", "checkout", inv[p].branch>>
                /\ \A j \in 2..Len(o) :
                      IF failed(j)
                      THEN o[j].argv = AbortCmd /\ ~failed(j - 1)
                      ELSE j - 1 <= Len(cs) /\ o[j].argv = PickOf(cs[j - 1])
                /\ Orchestrated(p) =>
                      /\ Len(o) >= 2
                      /\ IF failed(Len(o)) THEN o[Len(o)].argv = AbortCmd
                         ELSE o[Len(o)].rc = 0 /\ Len(o) = Len(cs) + 1

\* [c1, c2, c3] onto B, c2 conflicts: checkout, c1, c2, abort, and never c3
C1_Witness ==
    /\ Orchestrated("p1")
    /\ ~inv["p1"].auto_resolve
    /\ inv["p1"].commits = <<"c1", "c2", "c3">>
    /\ [j \in DOMAIN cmds["p1"] |-> cmds["p1"][j].argv] =
          << <<"git", "checkout", "B">>, PickOf("c1"), PickOf("c2"), AbortCmd >>
    /\ cmds["p1"][2].rc = 0
    /\ cmds["p1"][3].rc # 0

\* C2: with auto-resolve enabled every commit of the list is attempted exactly
\* once in list order, each failing attempt is followed by exactly one
\* 'cherry-pick --skip' before the next commit, 'cherry-pick --abort' is never
\* issued, and the loop reaches the end of the list.
C2_SkipAndContinue ==
    \A p \in Procs :
        (inv[p].sub = "cherry-pick" /\ inv[p].auto_resolve) =>
            LET o  == Orchestration(p)
                cs == inv[p].commits
                picks == SelectSeq(o, LAMBDA c : c.argv \in {PickOf(x) : x \in Commits})
                isPick(j) == o[j].argv \in {PickOf(x) : x \in Commits}
            IN  /\ o # <<>> => o[1].argv = <<"git", "checkout", inv[p].branch>>
                /\ \A j \in 2..Len(o) :
                      /\ o[j].argv # AbortCmd
                      /\ isPick(j) \/ o[j].argv = SkipCmd
                      /\ o[j].argv = SkipCmd <=> (j > 2 /\ isPick(j - 1) /\ o[j - 1].rc # 0)
                /\ Len(picks) <= Len(cs)
                /\ \A k \in DOMAIN picks : picks[k].argv = PickOf(cs[k])
                /\ Orchestrated(p) =>
                      /\ Len(picks) = Len(cs)
                      /\ isPick(Len(o)) => o[Len(o)].rc = 0

\* [c1, c2, c3] onto B, c2 conflicts: checkout, c1, c2, skip, c3
C2_Witness ==
    /\ Orchestrated("p1")
    /\ inv["p1"].auto_resolve
    /\ inv["p1"].commits = <<"c1", "c2", "c3">>
    /\ [j \in DOMAIN cmds["p1"] |-> cmds["p1"][j].argv] =
          << <<"git", "checkout", "B">>, PickOf("c1"), PickOf("c2"), SkipCmd, PickOf("c3") >>
    /\ cmds["p1"][3].rc # 0

\* the directory has an immediate child named '.git' that is a directory
HasMetadataFolder(path) ==
    /\ path \in {PathRepo, PathNested, PathLinked}
    /\ \E j \in DOMAIN listdir(path) :
          listdir(path)[j] = ".git" /\ Append(path, ".git") \in {<<"repo", ".git">>}

NotARepositoryEcho(path) == <<<<"is not a git project directory", path>>>>

\* C3: an invocation whose --path has no '.git' directory as an immediate
\* child runs no external command and no subcommand body: no repository
\* context is set, nothing is spawned, the configuration file is not written,
\* and all it ever echoes, once the group callback has run, is that the path
\* is not a git project directory.
C3_NoRepositoryNoCommand ==
    \A p \in Procs :
        (pc[p] # "idle" /\ ~HasMetadataFolder(inv[p].path)) =>
            /\ pc[p] \in {"loaded", "done"}
            /\ cmds[p] = <<>>
            /\ ctx[p] = None
            /\ ~wrote[p]
            /\ out[p] \in {<<>>, NotARepositoryEcho(inv[p].path)}
            /\ (pc[p] = "done" /\ exc[p] = "none") =>
                  out[p] = NotARepositoryEcho(inv[p].path)

\* run-alias in a linked worktree, whose '.git' is a file, has ended
C3_Witness ==
    /\ pc["p1"] = "done"
    /\ inv["p1"].sub = "run-alias"
    /\ inv["p1"].path = PathLinked
    /\ DOMAIN config["p1"].alias # {}
    /\ out["p1"] = NotARepositoryEcho(PathLinked)
    /\ cmds["p1"] = <<>>

AliasSubs == {"alias-add", "alias-remove", "alias-list", "alias-clear", "run-alias"}

\* this step is the body of subcommand `sub` of invocation p
BodyStep(p, sub) ==
    /\ pc[p] = "loaded"
    /\ pc'[p] = "done"
    /\ inv[p].sub = sub
    /\ ctx'[p] # None

\* a name without its characters that are not letters a-z or A-Z
LettersOnly(name) ==
    SelectSeq(name, LAMBDA ch : ch \in Range(LowerSeq) \cup Range(UpperSeq))

\* the key of the store a name stands for: the store compares names without
\* regard to case and keeps them in lower case
StoreKey(name) ==
    [j \in DOMAIN name |->
        IF \E k \in DOMAIN UpperSeq : UpperSeq[k] = name[j]
        THEN LowerSeq[CHOOSE k \in DOMAIN UpperSeq : UpperSeq[k] = name[j]]
        ELSE name[j]]

\* C4: alias-add with a name whose sanitized form is already a key of the
\* store leaves the store and the configuration file as they are, writes
\* nothing, and reports that the alias already exists.
C4_ExistingAliasUntouched ==
    [][\A p \in Procs :
        (BodyStep(p, "alias-add") /\ LettersOnly(inv[p].name) \in DOMAIN config[p].alias) =>
            /\ config'[p] = config[p]
            /\ file' = file
            /\ ~wrote'[p]
            /\ exc'[p] = "none"
            /\ out'[p] = <<<<"already exists", LettersOnly(inv[p].name)>>>>]_vars

\* 'my-alias!' is refused because 'myalias' is defined, with another command
C4_Witness ==
    /\ pc["p1"] = "done"
    /\ inv["p1"].sub = "alias-add"
    /\ inv["p1"].name = NameMyAlias
    /\ out["p1"] = <<<<"already exists", KeyMyAlias>>>>
    /\ KeyMyAlias \in DOMAIN file.alias
    /\ file.alias[KeyMyAlias] # inv["p1"].command

\* C5: alias-add NAME COMMAND with the sanitized name not yet in the store
\* stores COMMAND under NAME without its non-letters, in the parser and in
\* the configuration file.
C5_AddStoresCommand ==
    [][\A p \in Procs :
        (BodyStep(p, "alias-add")
            /\ StoreKey(LettersOnly(inv[p].name)) \notin DOMAIN config[p].alias) =>
            LET key == StoreKey(LettersOnly(inv[p].name))
            IN  /\ key \in DOMAIN config'[p].alias
                /\ config'[p].alias[key] = inv[p].command
                /\ key \in DOMAIN file'.alias
                /\ file'.alias[key] = inv[p].command]_vars

\* C6: run-alias NAME ARGS for a NAME of the store starts exactly one process,
\* whose argument list is the whitespace-separated tokens of the stored
\* command string followed by ARGS, and leaves the store as it is.
C6_RunAliasSpawnsStoredCommand ==
    [][\A p \in Procs :
        (BodyStep(p, "run-alias") /\ StoreKey(inv[p].name) \in DOMAIN config[p].alias) =>
            /\ Len(cmds'[p]) = 1
            /\ cmds'[p][1].argv =
                  split(config[p].alias[StoreKey(inv[p].name)]) \o inv[p].args
            /\ config'[p] = config[p]
            /\ file' = file]_vars

\* the table of alias-list with the placeholder row alone
EmptyListing == <<<<"table", {<<"No aliases found", "">>}>>>>

\* C7: an alias-list that runs right after an alias-clear has run shows no
\* alias: its table holds the placeholder row only, whatever the store held.
C7_ListAfterClearIsEmpty ==
    \A p \in Procs :
        (pc[p] = "done" /\ inv[p].sub = "alias-list" /\ ctx[p] # None
            /\ prev.sub = "alias-clear") =>
            /\ exc[p] = "none"
            /\ out[p] = EmptyListing

C7_Witness ==
    /\ pc["p1"] = "done"
    /\ inv["p1"].sub = "alias-list"
    /\ prev.sub = "alias-clear"
    /\ out["p1"] = EmptyListing
    /\ file.has
    /\ DOMAIN file.alias = {}

\* C8: alias-remove and run-alias with a name that is not in the store, the
\* configuration without alias section included, report that there is no
\* such alias, change neither store nor file, start no process and end
\* without an uncaught error.
C8_UnknownAliasIsReported ==
    [][\A p \in Procs :
        (/\ BodyStep(p, "alias-remove") \/ BodyStep(p, "run-alias")
         /\ StoreKey(inv[p].name) \notin DOMAIN config[p].alias) =>
            /\ exc'[p] = "none"
            /\ out'[p] \in { <<<<"not found", inv[p].name>>>>,
                             <<<<"does not exist", inv[p].name>>>>,
                             <<<<"No aliases found", inv[p].name>>>> }
            /\ cmds'[p] = <<>>
            /\ config'[p] = config[p]
            /\ file' = file
            /\ ~wrote'[p]]_vars

\* C9 as claimed: an alias subcommand ends the same way whether or not --path
\* is a repository: it never ends with the not-a-repository message, and
\* alias-clear always rewrites the file.
C9_SameEffectAnywhere ==
    \A p \in Procs :
        (pc[p] = "done" /\ inv[p].sub \in AliasSubs /\ exc[p] = "none") =>
            /\ out[p] # NotARepositoryEcho(inv[p].path)
            /\ inv[p].sub = "alias-clear" => wrote[p]

\* C9 as amended: an alias subcommand never uses the repository context (the
\* process of run-alias gets no working directory), but it runs only when
\* --path is a repository; otherwise it echoes that the path is not a git
\* project directory, writes nothing and spawns nothing.
C9_AliasNeedsRepositoryOnly ==
    \A p \in Procs :
        (pc[p] # "idle" /\ inv[p].sub \in AliasSubs) =>
            LET ended == pc[p] = "done" /\ exc[p] = "none"
            IN  /\ \A j \in DOMAIN cmds[p] : cmds[p][j].cwd = NoCwd
                /\ IF HasMetadataFolder(inv[p].path)
                   THEN ended => out[p] # NotARepositoryEcho(inv[p].path)
                   ELSE /\ ~wrote[p]
                        /\ cmds[p] = <<>>
                        /\ ended => out[p] = NotARepositoryEcho(inv[p].path)

\* alias-clear from a directory that does not exist: the aliases are still there
C9_Witness ==
    /\ pc["p1"] = "done"
    /\ inv["p1"].sub = "alias-clear"
    /\ inv["p1"].path = PathMissing
    /\ out["p1"] = NotARepositoryEcho(PathMissing)
    /\ DOMAIN file.alias # {}

\* invocation p has added an alias and written the file
Added(p) == pc[p] = "done" /\ inv[p].sub = "alias-add" /\ wrote[p]

\* p and q added different names, each having read the file before the other
\* wrote it
AddedConcurrently(p, q) ==
    /\ p # q
    /\ Added(p)
    /\ Added(q)
    /\ StoreKey(inv[p].name) # StoreKey(inv[q].name)
    /\ StoreKey(inv[q].name) \notin DOMAIN config[p].alias
    /\ StoreKey(inv[p].name) \notin DOMAIN config[q].alias

\* C10: after two such alias-adds the file is what the last writer held in
\* memory, so the alias of the other invocation is missing from it.
C10_LastWriterWins ==
    \A p, q \in Procs :
        AddedConcurrently(p, q) =>
            /\ \E w \in {p, q} :
                  file = [exists |-> TRUE, has |-> TRUE, alias |-> config[w].alias]
            /\ \/ StoreKey(inv[p].name) \notin DOMAIN file.alias
               \/ StoreKey(inv[q].name) \notin DOMAIN file.alias

\* p1 added 'b', p2 then wrote its own store: 'b' is lost
C10_Witness ==
    /\ AddedConcurrently("p1", "p2")
    /\ inv["p1"].name = NameB
    /\ NameB \notin DOMAIN file.alias
    /\ KeyMyAlias \in DOMAIN file.alias

\* the paths that do not exist or are no directories
NotDirectories == {PathFile, PathMissing}

\* the exceptions of config.read at import, before the group callback runs
ImportErrors == {"ParsingError", "DuplicateOptionError"}

\* C11 as claimed: for a starting path that does not exist or is no directory
\* the locator fails with NotADirectory, and the invocation does not end with
\* the not-a-repository message of a directory without metadata folder.
C11_NotADirectoryIsDistinct ==
    \A p \in Procs :
        (pc[p] = "done" /\ inv[p].path \in NotDirectories /\ exc[p] \notin ImportErrors) =>
            /\ exc[p] = "NotADirectoryError"
            /\ out[p] # NotARepositoryEcho(inv[p].path)

\* C11 as amended: for a starting path that does not exist or is no directory
\* the locator finds nothing and raises nothing: the invocation ends as it
\* does for a directory without metadata folder, with the same
\* not-a-git-project message, no exception and no repository context.
C11_NotADirectoryIsNotARepository ==
    \A p \in Procs :
        (pc[p] # "idle" /\ inv[p].path \in NotDirectories) =>
            /\ exc[p] \in ImportErrors \cup {"none"}
            /\ ctx[p] = None
            /\ (pc[p] = "done" /\ exc[p] = "none") =>
                  out[p] = <<<<"is not a git project directory", inv[p].path>>>>

\* git_plugin push --path missing ends with the not-a-git-project message
C11_Witness ==
    /\ pc["p1"] = "done"
    /\ inv["p1"].prog = "git_plugin"
    /\ inv["p1"].sub = "push"
    /\ inv["p1"].path = PathMissing
    /\ exc["p1"] = "none"
    /\ out["p1"] = NotARepositoryEcho(PathMissing)
    /\ cmds["p1"] = <<>>

\* the alias stores: the section of the file and of every loaded parser
Stores == {file.alias} \cup {config[p].alias : p \in Procs}

\* C12: every key of the alias store, in the configuration file and in the
\* parser of every invocation, consists only of letters a-z and A-Z, and no
\* two keys of a store are the same name (keys are compared without regard
\* to case), so a name maps to one command.
C12_KeysAreUniqueLetterNames ==
    \A store \in Stores :
        \A k \in DOMAIN store :
            /\ \A j \in DOMAIN k : k[j] \in Range(LowerSeq) \cup Range(UpperSeq)
            /\ \A k2 \in DOMAIN store : StoreKey(k2) = StoreKey(k) => k2 = k

\* 'my-alias!' has been added to a store that holds 'b': the keys are 'b' and
\* 'myalias'
C12_Witness ==
    /\ Added("p1")
    /\ inv["p1"].name = NameMyAlias
    /\ DOMAIN file.alias = {NameB, KeyMyAlias}
    /\ DOMAIN config["p1"].alias = {NameB, KeyMyAlias}

\* the final outcome message of the orchestration of invocation p
FinalReport(p) ==
    <<"Cherry-picked commits successfully", inv[p].commits, inv[p].branch>>

\* how many messages of `msgs` are the final outcome message
Reports(p, msgs) == Len(SelectSeq(msgs, LAMBDA m : m = FinalReport(p)))

\* the orchestration of p was cut short by 'cherry-pick --abort'
Aborted(p) == \E j \in DOMAIN cmds[p] : cmds[p][j].argv = AbortCmd

\* C13: the final outcome message of the cherry-pick orchestration is not
\* echoed while commands are still being issued, and at the end of every run
\* it has been echoed exactly once, as the last message, also when the run
\* was cut short by an abort: an aborted run ends with the same message as a
\* completed one.
C13_FinalReportOnceAndLast ==
    \A p \in Procs :
        inv[p].sub = "cherry-pick" =>
            /\ pc[p] # "done" => Reports(p, out[p]) = 0
            /\ Orchestrated(p) =>
                  /\ Reports(p, out[p]) = 1
                  /\ out[p][Len(out[p])] = FinalReport(p)

\* [c1, c2] onto B without auto-resolve, c1 conflicts: the run was aborted
\* and ends with the success message
C13_Witness ==
    /\ Orchestrated("p1")
    /\ ~inv["p1"].auto_resolve
    /\ inv["p1"].commits = <<"c1", "c2">>
    /\ Aborted("p1")
    /\ Len(cmds["p1"]) = 3
    /\ out["p1"][Len(out["p1"])] = FinalReport("p1")
    /\ <<"Conflict detected", "c1">> \in Range(out["p1"])

\* the checkout of the target branch of invocation p
CheckoutOf(p) == <<"git", "checkout", inv[p].branch>>

\* C14: the checkout of the target branch is the first command of the
\* orchestration and is issued once; when it fails the failure is echoed, and
\* failed or not, the orchestration goes on to cherry-pick the first commit
\* of the list and ends as C1 and C2 describe.
C14_CheckoutOnceFirstNotFatal ==
    \A p \in Procs :
        inv[p].sub = "cherry-pick" =>
            LET o == Orchestration(p)
            IN  /\ \A j \in DOMAIN o : o[j].argv = CheckoutOf(p) <=> j = 1
                /\ (o # <<>> /\ o[1].rc # 0) =>
                      <<"Error running", CheckoutOf(p)>> \in Range(out[p])
                /\ (Len(o) = 1 /\ pc[p] # "done") => pc[p] = "pick" /\ idx[p] = 1
                /\ Len(o) >= 2 => o[2].argv = PickOf(inv[p].commits[1])
                /\ Orchestrated(p) => Len(o) >= 2

\* the checkout of B failed and [c1, c2] were cherry-picked all the same
C14_Witness ==
    /\ Orchestrated("p1")
    /\ inv["p1"].commits = <<"c1", "c2">>
    /\ cmds["p1"][1].argv = <<"git", "checkout", "B">>
    /\ cmds["p1"][1].rc # 0
    /\ <<"Error running", <<"git", "checkout", "B">>>> \in Range(out["p1"])
    /\ [j \in DOMAIN cmds["p1"] |-> cmds["p1"][j].argv] =
          << <<"git", "checkout", "B">>, PickOf("c1"), PickOf("c2") >>

GitSubs == {"push", "pull", "cherry-pick"}

\* C15: the group callback sets a repository context exactly for a starting
\* directory that has an immediate child named '.git' which is a directory
\* (not for a subdirectory of a repository, not when '.git' is a file); the
\* repository root it sets, and the working directory of every git command
\* of the invocation, is the starting path.
C15_RootIsTheStartingPath ==
    \A p \in Procs :
        pc[p] # "idle" =>
            /\ ctx[p] # None => HasMetadataFolder(inv[p].path) /\ ctx[p] = inv[p].path
            /\ (pc[p] \notin {"loaded", "done"}) => ctx[p] # None
            /\ (pc[p] = "done" /\ exc[p] \notin ImportErrors /\ HasMetadataFolder(inv[p].path))
                  => ctx[p] # None
            /\ inv[p].sub \in GitSubs =>
                  /\ cmds[p] # <<>> => HasMetadataFolder(inv[p].path)
                  /\ \A j \in DOMAIN cmds[p] : cmds[p][j].cwd = inv[p].path

\* a push in the repository root has run its three commands there
C15_Witness ==
    /\ pc["p1"] = "done"
    /\ inv["p1"].sub = "push"
    /\ inv["p1"].path = PathRepo
    /\ ctx["p1"] = PathRepo
    /\ Len(cmds["p1"]) = 3
    /\ \A j \in 1..3 : cmds["p1"][j].cwd = PathRepo

\* store `after` is store `before` with the entry of `key` added or deleted
\* and every other entry as it was
OnlyKeyChanged(before, after, key) ==
    /\ DOMAIN after \ {key} = DOMAIN before \ {key}
    /\ \A k \in DOMAIN before \ {key} : after[k] = before[k]

\* the aliases the parser reads from file f
AsRead(f) ==
    [k \in {StoreKey(strip(x)) : x \in DOMAIN f.alias} |->
        strip(f.alias[CHOOSE x \in DOMAIN f.alias : StoreKey(strip(x)) = k])]

PushSequence(message) ==
    << <<"git", "add", ".">>, <<"git", "commit", "-m", message>>, <<"git", "push">> >>

\* C17: the commands of a push are, in this order and each once, 'git add .',
\* 'git commit -m <message>' and 'git push', all run in the repository root;
\* a push that has come to its end has issued all three, whatever the exit
\* status of each, and nothing else.
C17_PushIssuesThreeCommands ==
    \A p \in Procs :
        inv[p].sub = "push" =>
            LET want == PushSequence(inv[p].message)
            IN  /\ Len(cmds[p]) <= 3
                /\ \A j \in DOMAIN cmds[p] :
                      /\ cmds[p][j].argv = want[j]
                      /\ cmds[p][j].cwd = inv[p].path
                /\ (pc[p] = "done" /\ ctx[p] # None) => Len(cmds[p]) = 3
                /\ (pc[p] \notin {"idle", "loaded", "done"}) =>
                      pc[p] = "push" /\ Len(cmds[p]) < 3

\* add succeeded, the commit failed, and the push was issued nevertheless
C17_Witness ==
    /\ pc["p1"] = "done"
    /\ inv["p1"].sub = "push"
    /\ inv["p1"].message = "fix"
    /\ Len(cmds["p1"]) = 3
    /\ cmds["p1"][1].rc = 0
    /\ cmds["p1"][2].argv = <<"git", "commit", "-m", "fix">>
    /\ cmds["p1"][2].rc # 0
    /\ cmds["p1"][3].argv = <<"git", "push">>

\* C18: when alias-add NAME COMMAND has stored an alias and the next
\* invocation is alias-remove with the same NAME, then after the remove no
\* alias is stored under NAME without its non-letters, neither in the file
\* nor in the parser.
C18_AddThenRemoveLeavesNoAlias ==
    \A p \in Procs :
        (/\ pc[p] = "done"
         /\ inv[p].sub = "alias-remove"
         /\ ctx[p] # None
         /\ prev.sub = "alias-add"
         /\ prev.name = inv[p].name) =>
            /\ exc[p] = "none"
            /\ StoreKey(LettersOnly(inv[p].name)) \notin DOMAIN file.alias
            /\ StoreKey(LettersOnly(inv[p].name)) \notin DOMAIN config[p].alias

\* the commands of the orchestration: checkout, cherry-pick, skip and abort
IsOrchestrationCommand(argv) == argv[1] = "git" /\ argv[2] \in {"checkout", "cherry-pick"}

\* C19: an invocation of cherry-pick issues a checkout, cherry-pick, skip or
\* abort command only if both its commit list (given with --cherry-pick or
\* selected interactively) and its branch name are non-empty; otherwise it
\* issues none of them, echoes no outcome of an orchestration and writes
\* nothing.
C19_NothingWithoutCommitsAndBranch ==
    \A p \in Procs :
        (inv[p].sub = "cherry-pick" /\ (inv[p].commits = <<>> \/ inv[p].branch = "")) =>
            /\ \A j \in DOMAIN cmds[p] : ~IsOrchestrationCommand(cmds[p][j].argv)
            /\ pc[p] \in {"idle", "loaded", "done"}
            /\ idx[p] = 0
            /\ \A j \in DOMAIN out[p] : out[p][j][1] # "Cherry-picked commits successfully"
            /\ ~wrote[p]

\* commits are given but no branch: the invocation has ended without a command
C19_Witness ==
    /\ pc["p1"] = "done"
    /\ inv["p1"].sub = "cherry-pick"
    /\ ctx["p1"] # None
    /\ inv["p1"].commits = <<"c1", "c2">>
    /\ inv["p1"].branch = ""
    /\ cmds["p1"] = <<>>
    /\ out["p1"] = <<>>

====
